---- MODULE Spec2Model ----
(***************************************************************************)
(* A model of the two LISP2 mark-compact collectors of this repository:    *)
(*   "lisp2"     src/lisp2.c             one heap of fixed size            *)
(*   "realloc"   src/unnamed/part_000    the heap is realloc'ed each gc    *)
(*                                       (lisp2-reallocate.c)              *)
(* Addresses are byte addresses, as in the C code: a reference is the      *)
(* address of a cell, and every pointer computation of the collectors      *)
(* (moveTo - oldHeap, vm->heap + ...) is done on these numbers.            *)
(*                                                                         *)
(* A read of memory the program does not own (past the end of the block    *)
(* realloc returned, or inside a block realloc freed) is undefined: the    *)
(* model draws its outcome (parameter lenient) between "the bytes are      *)
(* still what they were" and status "undefined", where the run is not      *)
(* followed further.                                                       *)
(***************************************************************************)
EXTENDS Integers, Sequences, FiniteSets, TLC

\* ---------------------------------------------------------------- bounds
\* HEAP_SIZE / sizeof(Object) of lisp2.c, scaled down from 32768 cells.
HeapCells == 3
\* realloc variant: allocations are cut off at this many cells in the heap.
MaxCells == 3
\* realloc variant, runs of pushInt alone: the same cut, further out.
GrowthCells == 8
\* perfTest: the integers pushed and popped in one round, scaled down from
\* 20, and where allocations of the realloc variant are cut off in it.
ChurnBlock == 3
ChurnCells == 5
STACK_MAX == 256

\* ------------------------------------------------------------- constants
\* sizeof(Object) on an LP64 build: int type (4, padded to 8), void* moveTo
\* (8), union of int and two pointers (16).
ObjSize == 32
\* Offset of the end of the moveTo field inside a cell.
MoveToEnd == 16
HEAP_MIN == 16
\* HEAP_HEADROOM = 1.5 = HEADROOM_NUM / HEADROOM_DEN
HEADROOM_NUM == 3
HEADROOM_DEN == 2
HEAP_SIZE == HeapCells * ObjSize
NULL == 0
\* The two addresses malloc and realloc return in the model.
BaseA == 1024
BaseB == 2048
Bases == {BaseA, BaseB}
\* The values pushInt is called with.
IntValues == {1, 2}
OBJ_INT == "OBJ_INT"
OBJ_PAIR == "OBJ_PAIR"
\* What a faulting read yields; no address and not NULL.
Fault == -1

VARIABLES variant, stack, stackSize, heap, end, next, mem, status, last
vars == <<variant, stack, stackSize, heap, end, next, mem, status, last>>

\* ------------------------------------------------------------- the heap
\* Memory never written by the program.
Uninit == [type |-> "uninit", moveTo |-> Fault, value |-> 0, head |-> Fault, tail |-> Fault]

\* The number of cells the memory of v holds.
NCells(v) == Cardinality(DOMAIN v.mem)

Idx(base, p) == (p - base) \div ObjSize

\* p is the address of a cell of the block at base.
InBlock(base, n, p) == p >= base /\ (p - base) % ObjSize = 0 /\ Idx(base, p) < n

\* The first nbytes bytes of the cell at p can be read or written: the cell
\* holds data and lies inside the block, or (lenient) lies past its end and
\* its bytes are physically still there.
Accessible(v, p, nbytes, lenient) ==
  /\ InBlock(v.heap, NCells(v), p)
  /\ v.mem[Idx(v.heap, p)] # Uninit
  /\ (p + nbytes <= v.end \/ lenient)

Trap(v) == [v EXCEPT !.status = "undefined"]

\* ---------------------------------------------------------------- mark
\* mark that follows the head of a pair and not its tail.
RECURSIVE mark_headOnly(_, _, _)
mark_headOnly(v, object, lenient) ==
  IF v.status # "ok" THEN v
  ELSE IF ~Accessible(v, object, MoveToEnd, lenient) THEN Trap(v)
  ELSE LET i == Idx(v.heap, object)
           c == v.mem[i]
       IN IF c.moveTo # NULL THEN v
          ELSE LET v1 == [v EXCEPT !.mem[i].moveTo = object]
               IN IF c.type = OBJ_PAIR
                  THEN IF ~Accessible(v, object, ObjSize, lenient) THEN Trap(v1)
                       ELSE mark_headOnly(v1, c.head, lenient)
                  ELSE v1

RECURSIVE mark(_, _, _)
mark(v, object, lenient) ==
  IF v.status # "ok" THEN v
  ELSE IF ~Accessible(v, object, MoveToEnd, lenient) THEN Trap(v)
  ELSE LET i == Idx(v.heap, object)
           c == v.mem[i]
       IN IF c.moveTo # NULL THEN v
          ELSE LET v1 == [v EXCEPT !.mem[i].moveTo = object]
               IN IF c.type = OBJ_PAIR
                  THEN IF ~Accessible(v, object, ObjSize, lenient) THEN Trap(v1)
                       ELSE mark(mark(v1, c.head, lenient), c.tail, lenient)
                  ELSE v1

RECURSIVE markFrom(_, _, _)
markFrom(v, i, lenient) ==
  IF i > v.stackSize THEN v
  ELSE markFrom(mark(v, v.stack[i], lenient), i + 1, lenient)

markAll(v, lenient) == markFrom(v, 1, lenient)

\* ------------------------------------------------- calculateNewLocations
\* The loop with the cursor advanced past dead cells as well.
RECURSIVE calcFrom_everyCell(_, _, _)
calcFrom_everyCell(v, i, to) ==
  IF ~(v.heap + i * ObjSize < v.next) THEN [vm |-> v, to |-> to]
  ELSE IF v.mem[i].moveTo # NULL
       THEN calcFrom_everyCell([v EXCEPT !.mem[i].moveTo = to], i + 1, to + ObjSize)
       ELSE calcFrom_everyCell(v, i + 1, to + ObjSize)

\* The loop of calculateNewLocations from cell i on, the destination cursor
\* at to; the result is the VM and the final cursor.
RECURSIVE calcFrom(_, _, _)
calcFrom(v, i, to) ==
  IF ~(v.heap + i * ObjSize < v.next) THEN [vm |-> v, to |-> to]
  ELSE IF v.mem[i].moveTo # NULL
       THEN calcFrom([v EXCEPT !.mem[i].moveTo = to], i + 1, to + ObjSize)
       ELSE calcFrom(v, i + 1, to)

calculateNewLocations(v) == calcFrom(v, 0, v.heap)

\* The moveTo field of the cell p points at, read through p in the current
\* block; Fault when that read is not defined.
readMoveTo(v, p, lenient) ==
  IF Accessible(v, p, MoveToEnd, lenient) THEN v.mem[Idx(v.heap, p)].moveTo ELSE Fault

\* ------------------------------------------------------ lisp2.c: phases
RECURSIVE updateStack_lisp2(_, _)
updateStack_lisp2(v, i) ==
  IF v.status # "ok" \/ i > v.stackSize THEN v
  ELSE LET m == readMoveTo(v, v.stack[i], FALSE)
       IN IF m = Fault THEN Trap(v)
          ELSE updateStack_lisp2([v EXCEPT !.stack[i] = m], i + 1)

RECURSIVE updateHeap_lisp2(_, _)
updateHeap_lisp2(v, i) ==
  IF v.status # "ok" \/ ~(v.heap + i * ObjSize < v.next) THEN v
  ELSE LET c == v.mem[i]
       IN IF c.moveTo # NULL /\ c.type = OBJ_PAIR
          THEN LET h == readMoveTo(v, c.head, FALSE)
                   t == readMoveTo(v, c.tail, FALSE)
               IN IF h = Fault \/ t = Fault THEN Trap(v)
                  ELSE updateHeap_lisp2([v EXCEPT !.mem[i].head = h, !.mem[i].tail = t], i + 1)
          ELSE updateHeap_lisp2(v, i + 1)

\* The stack is walked first, then the heap.
updateAllObjectPointers_lisp2(v) == updateHeap_lisp2(updateStack_lisp2(v, 1), 0)

\* memmove(to, object, sizeof(Object)); to->moveTo = NULL
moveCell(v, i, to) ==
  IF InBlock(v.heap, NCells(v), to) /\ to + ObjSize <= v.end
  THEN [v EXCEPT !.mem[Idx(v.heap, to)] = [v.mem[i] EXCEPT !.moveTo = NULL]]
  ELSE Trap(v)

RECURSIVE compactFrom_lisp2(_, _)
compactFrom_lisp2(v, i) ==
  IF v.status # "ok" \/ ~(v.heap + i * ObjSize < v.next) THEN v
  ELSE IF v.mem[i].moveTo # NULL
       THEN compactFrom_lisp2(moveCell(v, i, v.mem[i].moveTo), i + 1)
       ELSE compactFrom_lisp2(v, i + 1)

compact_lisp2(v) == compactFrom_lisp2(v, 0)

\* gc with two passes exchanged: the cells are moved before the references
\* are fixed.
gc_lisp2_compactFirst(v) ==
  LET m == markAll(v, FALSE)
      c == calculateNewLocations(m)
      k == compact_lisp2(c.vm)
      u == updateAllObjectPointers_lisp2(k)
  IN IF u.status # "ok" THEN u ELSE [u EXCEPT !.next = c.to]

gc_lisp2(v) ==
  LET m == markAll(v, FALSE)
      c == calculateNewLocations(m)
      u == updateAllObjectPointers_lisp2(c.vm)
      k == compact_lisp2(u)
  IN IF k.status # "ok" THEN k ELSE [k EXCEPT !.next = c.to]

\* ------------------------------------------- lisp2-reallocate.c: phases
\* The size without the room asked for.
HeapSizeFor_noAdditional(liveSize, additionalSize) ==
  LET heapSize == (liveSize * HEADROOM_NUM) \div HEADROOM_DEN
  IN IF heapSize < HEAP_MIN THEN HEAP_MIN ELSE heapSize

\* size_t heapSize = liveSize * HEAP_HEADROOM + additionalSize;
\* if (heapSize < HEAP_MIN) heapSize = HEAP_MIN;
HeapSizeFor(liveSize, additionalSize) ==
  LET heapSize == (liveSize * HEADROOM_NUM) \div HEADROOM_DEN + additionalSize
  IN IF heapSize < HEAP_MIN THEN HEAP_MIN ELSE heapSize

\* What realloc leaves of cell i of the old block c when copied bytes of the
\* block are copied to a new place: the whole cell, its type and moveTo only,
\* or nothing.
copiedCell(c, i, copied) ==
  IF (i + 1) * ObjSize <= copied THEN c
  ELSE IF i * ObjSize + MoveToEnd <= copied /\ c # Uninit
       THEN [c EXCEPT !.value = 0, !.head = Fault, !.tail = Fault]
       ELSE Uninit

\* vm->heap = realloc(vm->heap, heapSize): in place (newHeap = vm->heap), or
\* to a new block that holds the first min(old size, heapSize) bytes.
realloc(v, heapSize, newHeap) ==
  IF newHeap = v.heap THEN v
  ELSE LET oldSize == v.end - v.heap
           copied == IF oldSize < heapSize THEN oldSize ELSE heapSize
       IN [v EXCEPT !.heap = newHeap,
                    !.mem = [i \in DOMAIN v.mem |-> copiedCell(v.mem[i], i, copied)]]

\* object->head->moveTo of updateAllObjectPointers: p is dereferenced as it
\* is. It is a cell of the current block, or a cell of the block old that
\* realloc has freed (lenient: its bytes are still there).
readMoveToOld(v, old, p, lenient) ==
  IF InBlock(v.heap, NCells(v), p) THEN readMoveTo(v, p, lenient)
  ELSE IF /\ lenient
          /\ InBlock(old.heap, NCells(old), p)
          /\ old.mem[Idx(old.heap, p)] # Uninit
       THEN old.mem[Idx(old.heap, p)].moveTo
       ELSE Fault

RECURSIVE updateHeap_realloc(_, _, _, _)
updateHeap_realloc(v, old, i, lenient) ==
  IF v.status # "ok" \/ ~(v.heap + i * ObjSize < v.next) THEN v
  ELSE LET c == v.mem[i]
       IN IF c.moveTo # NULL /\ c.type = OBJ_PAIR
          THEN LET h == readMoveToOld(v, old, c.head, lenient)
                   t == readMoveToOld(v, old, c.tail, lenient)
               IN IF h = Fault \/ t = Fault THEN Trap(v)
                  ELSE updateHeap_realloc(
                         [v EXCEPT !.mem[i].head = v.heap + (h - old.heap),
                                   !.mem[i].tail = v.heap + (t - old.heap)],
                         old, i + 1, lenient)
          ELSE updateHeap_realloc(v, old, i + 1, lenient)

\* The stack walk that stores moveTo as it is read, an address of the old
\* block.
RECURSIVE updateStack_realloc_noRebase(_, _, _, _)
updateStack_realloc_noRebase(v, old, i, lenient) ==
  IF v.status # "ok" \/ i > v.stackSize THEN v
  ELSE LET object == (v.stack[i] - old.heap) + v.heap
           m == readMoveTo(v, object, lenient)
       IN IF m = Fault THEN Trap(v)
          ELSE updateStack_realloc_noRebase([v EXCEPT !.stack[i] = m], old, i + 1, lenient)

RECURSIVE updateStack_realloc(_, _, _, _)
updateStack_realloc(v, old, i, lenient) ==
  IF v.status # "ok" \/ i > v.stackSize THEN v
  ELSE LET object == (v.stack[i] - old.heap) + v.heap
           m == readMoveTo(v, object, lenient)
       IN IF m = Fault THEN Trap(v)
          ELSE updateStack_realloc([v EXCEPT !.stack[i] = v.heap + (m - old.heap)],
                                   old, i + 1, lenient)

\* The heap is walked first, then the stack.
updateAllObjectPointers_realloc(v, old, lenient) ==
  updateStack_realloc(updateHeap_realloc(v, old, 0, lenient), old, 1, lenient)

RECURSIVE compactFrom_realloc(_, _, _)
compactFrom_realloc(v, oldHeap, i) ==
  IF v.status # "ok" \/ ~(v.heap + i * ObjSize < v.next) THEN v
  ELSE IF v.mem[i].moveTo # NULL
       THEN compactFrom_realloc(moveCell(v, i, v.heap + (v.mem[i].moveTo - oldHeap)),
                                oldHeap, i + 1)
       ELSE compactFrom_realloc(v, oldHeap, i + 1)

compact_realloc(v, oldHeap) == compactFrom_realloc(v, oldHeap, 0)

\* vm->end and vm->next are set right after realloc, before the two walks.
gc_realloc(v, additionalSize, newHeap, lenient) ==
  LET m == markAll(v, lenient)
      c == calculateNewLocations(m)
      liveSize == c.to - m.heap
      heapSize == HeapSizeFor(liveSize, additionalSize)
      old == c.vm
      r == realloc(old, heapSize, newHeap)
      r2 == [r EXCEPT !.end = r.heap + heapSize, !.next = r.heap + liveSize]
      u == updateAllObjectPointers_realloc(r2, old, lenient)
  IN IF m.status # "ok" THEN m ELSE compact_realloc(u, old.heap)

gc(v, additionalSize, newHeap, lenient) ==
  IF v.variant = "lisp2" THEN gc_lisp2(v)
  ELSE gc_realloc(v, additionalSize, newHeap, lenient)

\* ------------------------------------------------------------ the stack
push(v, value) ==
  IF v.stackSize = STACK_MAX THEN [v EXCEPT !.status = "StackOverflow"]
  ELSE [v EXCEPT !.stack = Append(v.stack, value), !.stackSize = v.stackSize + 1]

\* lisp2.c: return vm->stack[--vm->stackSize], with no check: on an empty
\* stack stackSize becomes -1 and stack[-1] is read.
pop_lisp2(v) ==
  IF v.stackSize >= 1
  THEN [vm |-> [v EXCEPT !.stack = SubSeq(v.stack, 1, v.stackSize - 1),
                         !.stackSize = v.stackSize - 1],
        value |-> v.stack[v.stackSize]]
  ELSE [vm |-> [v EXCEPT !.stackSize = v.stackSize - 1, !.status = "undefined"],
        value |-> Fault]

\* lisp2-reallocate.c: assert(vm->stackSize > 0, "Stack underflow!") first.
pop_realloc(v) ==
  IF v.stackSize > 0
  THEN [vm |-> [v EXCEPT !.stack = SubSeq(v.stack, 1, v.stackSize - 1),
                         !.stackSize = v.stackSize - 1],
        value |-> v.stack[v.stackSize]]
  ELSE [vm |-> [v EXCEPT !.status = "StackUnderflow"], value |-> NULL]

pop(v) == IF v.variant = "lisp2" THEN pop_lisp2(v) ELSE pop_realloc(v)

\* ------------------------------------------------------------ newObject
newVM(kind) ==
  [variant |-> kind, stack |-> <<>>, stackSize |-> 0, heap |-> BaseA,
   end |-> BaseA + (IF kind = "lisp2" THEN HEAP_SIZE ELSE HEAP_MIN), next |-> BaseA,
   mem |-> [i \in 0 .. (IF kind = "lisp2" THEN HeapCells ELSE MaxCells) - 1 |-> Uninit],
   status |-> "ok"]

\* The VM history fields hold when no collection ran.
NoVM == newVM("lisp2")

\* The result of an operation that ran no collection.
NoGc(v) == [vm |-> v, object |-> NULL, gcRan |-> FALSE, pre |-> NoVM, post |-> NoVM]

\* The room test with >= for >: a cell that fits exactly is refused.
needsGc_atFill(v) ==
  IF v.variant = "lisp2" THEN v.next + ObjSize >= v.heap + HEAP_SIZE
  ELSE v.next + ObjSize >= v.end

\* if (vm->next + sizeof(Object) > vm->heap + HEAP_SIZE)   (lisp2.c)
\* if (vm->next + sizeof(Object) > vm->end)                (reallocate)
needsGc(v) ==
  IF v.variant = "lisp2" THEN v.next + ObjSize > v.heap + HEAP_SIZE
  ELSE v.next + ObjSize > v.end

\* The frontier is advanced before the address of the new cell is taken.
allocate_bumpFirst(v, type) ==
  LET i == Idx(v.heap, v.next + ObjSize)
      c == [type |-> type, moveTo |-> NULL, value |-> 0, head |-> NULL, tail |-> NULL]
  IN [v EXCEPT !.next = v.next + ObjSize,
               !.mem = [j \in DOMAIN v.mem |-> IF j = i THEN c ELSE v.mem[j]]]

\* object = vm->next; vm->next += sizeof(Object); type and moveTo are set.
\* The payload is written by the caller right after.
allocate(v, type) ==
  LET i == Idx(v.heap, v.next)
      c == [type |-> type, moveTo |-> NULL, value |-> 0, head |-> NULL, tail |-> NULL]
  IN [v EXCEPT !.next = v.next + ObjSize,
               !.mem = [j \in DOMAIN v.mem |-> IF j = i THEN c ELSE v.mem[j]]]

\* newObject that does not look for room again after its collection.
newObjectAfterGc_noRecheck(v, g, type) ==
  IF g.status # "ok"
  THEN [vm |-> g, object |-> NULL, gcRan |-> TRUE, pre |-> v, post |-> g]
  ELSE [vm |-> allocate(g, type), object |-> g.next,
        gcRan |-> TRUE, pre |-> v, post |-> g]

\* newObject from the return of its gc on: v is the VM before the collection,
\* g the VM after it. lisp2.c checks for room again; lisp2-reallocate.c does
\* not.
newObjectAfterGc(v, g, type) ==
  IF g.status # "ok"
  THEN [vm |-> g, object |-> NULL, gcRan |-> TRUE, pre |-> v, post |-> g]
  ELSE IF g.variant = "lisp2" /\ g.next + ObjSize > g.heap + HEAP_SIZE
       THEN [vm |-> [g EXCEPT !.status = "OutOfMemory"], object |-> NULL,
             gcRan |-> TRUE, pre |-> v, post |-> g]
       ELSE [vm |-> allocate(g, type), object |-> g.next,
             gcRan |-> TRUE, pre |-> v, post |-> g]

\* The result: the VM, the new object, and the collection it ran, if any.
newObject(v, type, newHeap, lenient) ==
  IF needsGc(v)
  THEN newObjectAfterGc(v, gc(v, ObjSize, newHeap, lenient), type)
  ELSE [vm |-> allocate(v, type), object |-> v.next, gcRan |-> FALSE,
        pre |-> NoVM, post |-> NoVM]

\* object->value = intValue; push(vm, object): r is what newObject returned.
pushIntObject(r, intValue) ==
  IF r.vm.status # "ok" THEN r
  ELSE [r EXCEPT !.vm = push([r.vm EXCEPT !.mem[Idx(r.vm.heap, r.object)].value = intValue],
                             r.object)]

pushInt(v, intValue, newHeap, lenient) ==
  pushIntObject(newObject(v, OBJ_INT, newHeap, lenient), intValue)

\* pushPair with its steps exchanged: the fields are popped before the pair
\* is allocated.
pushPair_popFirst(v, newHeap, lenient) ==
  LET t == pop(v)
      h == pop(t.vm)
      r == newObject(h.vm, OBJ_PAIR, newHeap, lenient)
      i == Idx(r.vm.heap, r.object)
      v2 == [r.vm EXCEPT !.mem[i].tail = t.value, !.mem[i].head = h.value]
  IN IF t.vm.status # "ok" THEN [NoGc(t.vm) EXCEPT !.vm = t.vm]
     ELSE IF h.vm.status # "ok" THEN [NoGc(h.vm) EXCEPT !.vm = h.vm]
     ELSE IF r.vm.status # "ok" THEN r
     ELSE [r EXCEPT !.vm = push(v2, r.object)]

\* object->head = pop(vm); push(vm, object): h is what the second pop
\* returned.
pushPairHead(r, h) ==
  IF h.vm.status # "ok" THEN [r EXCEPT !.vm = h.vm]
  ELSE [r EXCEPT !.vm = push([h.vm EXCEPT !.mem[Idx(h.vm.heap, r.object)].head = h.value],
                             r.object)]

\* object->tail = pop(vm), and on: t is what the first pop returned.
pushPairTail(r, t) ==
  IF t.vm.status # "ok" THEN [r EXCEPT !.vm = t.vm]
  ELSE pushPairHead(r, pop([t.vm EXCEPT !.mem[Idx(t.vm.heap, r.object)].tail = t.value]))

\* pushPair from the return of newObject on: r is what it returned.
pushPairObject(r) ==
  IF r.vm.status # "ok" THEN r ELSE pushPairTail(r, pop(r.vm))

pushPair(v, newHeap, lenient) == pushPairObject(newObject(v, OBJ_PAIR, newHeap, lenient))

\* ------------------------------------------------------ the object graph
CellAt(v, p) ==
  IF InBlock(v.heap, NCells(v), p) /\ p < v.next THEN v.mem[Idx(v.heap, p)] ELSE Uninit

Children(v, p) ==
  LET c == CellAt(v, p) IN IF c.type = OBJ_PAIR THEN {c.head, c.tail} ELSE {}

RECURSIVE closure(_, _)
closure(v, S) ==
  LET T == S \cup UNION {Children(v, p) : p \in S}
  IN IF T = S THEN S ELSE closure(v, T)

Roots(v) == {v.stack[i] : i \in 1 .. v.stackSize}

\* The references reachable from the root stack.
Reachable(v) == closure(v, Roots(v))

\* ------------------------------------------------------------- the state
VM == [variant |-> variant, stack |-> stack, stackSize |-> stackSize, heap |-> heap,
       end |-> end, next |-> next, mem |-> mem, status |-> status]

Install(v) ==
  /\ variant' = v.variant
  /\ stack' = v.stack
  /\ stackSize' = v.stackSize
  /\ heap' = v.heap
  /\ end' = v.end
  /\ next' = v.next
  /\ mem' = v.mem
  /\ status' = v.status

\* What realloc may return, and whether bytes the program no longer owns
\* still read as they were: drawn only where the code can tell.
NewHeaps == IF variant = "lisp2" THEN {heap} ELSE Bases
Lenients == IF variant = "lisp2" THEN {FALSE} ELSE BOOLEAN
AdditionalSizes == IF variant = "lisp2" THEN {0} ELSE {0, ObjSize}

\* The model stops allocating when the heap holds NCells cells.
WithinBound(v) == v.next <= v.heap + NCells(v) * ObjSize

\* Some cell the collection of v keeps has a cell it drops below it, so that
\* compaction has to slide it.
Slides(v) ==
  \E p \in Reachable(v), q \in {v.heap + i * ObjSize : i \in 0 .. NCells(v) - 1} :
    q < p /\ p < v.next /\ q \notin Reachable(v)

\* What the last operation was, whether a collection ran in it, and whether
\* that collection had to slide a cell.
Record(op, r) == [op |-> op, gcRan |-> r.gcRan, slid |-> r.gcRan /\ Slides(r.pre)]

Init ==
  /\ variant \in {"lisp2", "realloc"}
  /\ stack = <<>>
  /\ stackSize = 0
  /\ heap = BaseA
  /\ end = newVM(variant).end
  /\ next = BaseA
  /\ mem = newVM(variant).mem
  /\ status = "ok"
  /\ last = Record("newVM", NoGc(NoVM))

PushInt ==
  /\ status = "ok"
  /\ \E n \in IntValues, newHeap \in NewHeaps, lenient \in Lenients :
     \E r \in {pushInt(VM, n, newHeap, lenient)} :
       /\ WithinBound(r.vm)
       /\ Install(r.vm)
       /\ last' = Record("pushInt", r)

PushPair ==
  /\ status = "ok"
  /\ \E newHeap \in NewHeaps, lenient \in Lenients :
     \E r \in {pushPair(VM, newHeap, lenient)} :
       /\ WithinBound(r.vm)
       /\ Install(r.vm)
       /\ last' = Record("pushPair", r)

Pop ==
  /\ status = "ok"
  /\ Install(pop(VM).vm)
  /\ last' = Record("pop", NoGc(VM))

\* a->head = b, for a pair a and an object b the mutator can reach.
SetHead ==
  /\ status = "ok"
  /\ \E a \in Reachable(VM), b \in Reachable(VM) :
       /\ CellAt(VM, a).type = OBJ_PAIR
       /\ CellAt(VM, b) # Uninit
       /\ Install([VM EXCEPT !.mem[Idx(heap, a)].head = b])
       /\ last' = Record("setHead", NoGc(VM))

SetTail ==
  /\ status = "ok"
  /\ \E a \in Reachable(VM), b \in Reachable(VM) :
       /\ CellAt(VM, a).type = OBJ_PAIR
       /\ CellAt(VM, b) # Uninit
       /\ Install([VM EXCEPT !.mem[Idx(heap, a)].tail = b])
       /\ last' = Record("setTail", NoGc(VM))

Gc ==
  /\ status = "ok"
  /\ \E additionalSize \in AdditionalSizes, newHeap \in NewHeaps, lenient \in Lenients :
     \E g \in {gc(VM, additionalSize, newHeap, lenient)} :
       /\ Install(g)
       /\ last' = Record("gc", [vm |-> g, gcRan |-> TRUE, pre |-> VM, post |-> g])

Next == PushInt \/ PushPair \/ Pop \/ SetHead \/ SetTail \/ Gc

Spec == Init /\ [][Next]_vars

InitLisp2 == Init /\ variant = "lisp2"
SpecLisp2 == InitLisp2 /\ [][Next]_vars

InitRealloc == Init /\ variant = "realloc"
SpecRealloc == InitRealloc /\ [][Next]_vars

\* lisp2-reallocate.c, a new VM on which only pushInt is called.
InitGrowth ==
  /\ variant = "realloc"
  /\ stack = <<>>
  /\ stackSize = 0
  /\ heap = BaseA
  /\ end = BaseA + HEAP_MIN
  /\ next = BaseA
  /\ mem = [i \in 0 .. GrowthCells - 1 |-> Uninit]
  /\ status = "ok"
  /\ last = Record("newVM", NoGc(NoVM))

NextGrowth == PushInt

SpecGrowth == InitGrowth /\ [][NextGrowth]_vars

\* perfTest of both files: rounds of ChurnBlock pushInt and ChurnBlock pop
\* on a new VM.
InitChurn ==
  /\ variant \in {"lisp2", "realloc"}
  /\ stack = <<>>
  /\ stackSize = 0
  /\ heap = BaseA
  /\ end = newVM(variant).end
  /\ next = BaseA
  /\ mem = IF variant = "lisp2" THEN newVM(variant).mem
           ELSE [i \in 0 .. ChurnCells - 1 |-> Uninit]
  /\ status = "ok"
  /\ last = Record("newVM", NoGc(NoVM))

\* for (j = 0; j < 20; j++) pushInt(vm, i);
ChurnPush ==
  /\ stackSize < ChurnBlock
  /\ last.op \in {"newVM", "pushInt"} \/ stackSize = 0
  /\ PushInt

\* for (k = 0; k < 20; k++) pop(vm);
ChurnPop ==
  /\ stackSize > 0
  /\ last.op = "pop" \/ stackSize = ChurnBlock
  /\ Pop

NextChurn == ChurnPush \/ ChurnPop

SpecChurn == InitChurn /\ [][NextChurn]_vars

\* ---------------------------------------------- comparing object graphs
\* The results a collection begun in the current state can have: one per
\* additionalSize it may be called with, per place realloc may return and per
\* outcome of the reads that are not defined.
Collections ==
  {gc(VM, a, h, l) : a \in AdditionalSizes, h \in NewHeaps, l \in Lenients}

\* The correspondence between the references of v and those of w that are
\* found by walking both graphs in step from the pairs of R.
RECURSIVE corr(_, _, _)
corr(v, w, R) ==
  LET P == {r \in R : CellAt(v, r[1]).type = OBJ_PAIR /\ CellAt(w, r[2]).type = OBJ_PAIR}
      T == R \cup {<<CellAt(v, r[1]).head, CellAt(w, r[2]).head>> : r \in P}
             \cup {<<CellAt(v, r[1]).tail, CellAt(w, r[2]).tail>> : r \in P}
  IN IF T = R THEN R ELSE corr(v, w, T)

RootPairs(v, w) == {<<v.stack[i], w.stack[i]>> : i \in 1 .. v.stackSize}

\* The graph of w from the references R pairs is the graph of v: the
\* correspondence is one to one (sharing and cycles are the same), and the
\* cells it pairs have the same type and, integers, the same value.
SameGraph(v, w, R) ==
  LET C == corr(v, w, R)
  IN /\ \A r \in C :
          LET a == CellAt(v, r[1])
              b == CellAt(w, r[2])
          IN a # Uninit /\ b # Uninit /\ a.type = b.type /\ a.value = b.value
     /\ \A r \in C, q \in C : (r[1] = q[1]) <=> (r[2] = q[2])

\* Some pair the roots reach can be reached from itself.
HasCycle(v) == \E p \in Reachable(v) : p \in closure(v, Children(v, p))

\* Some cell the roots reach is the head and the tail, or a field of two
\* pairs: it is shared.
HasSharing(v) ==
  \E p \in Reachable(v) :
    LET c == CellAt(v, p) IN c.type = OBJ_PAIR /\ c.head = c.tail

\* (vm->next - vm->heap) / sizeof(Object), the liveCount of the tests.
liveCount(v) == (v.next - v.heap) \div ObjSize

\* The cells of [heap, next) the roots reach.
LiveCells(v) == {p \in Reachable(v) : CellAt(v, p) # Uninit}

\* ------------------------------------------------------------------ C1
\* C1: lisp2.c: from every state that pushInt, pushPair, pop and field
\* assignments reach, a collection ends, leaves the stack size as it was, and
\* the graph the roots reach after it is the graph they reached before it:
\* same types, same integers, same edges, same sharing and cycles.
C1_GcPreservesGraph ==
  (variant = "lisp2" /\ status = "ok") =>
    \A g \in Collections :
      /\ g.status = "ok"
      /\ g.stackSize = stackSize
      /\ SameGraph(VM, g, RootPairs(VM, g))

\* A collection of lisp2.c has ended that had to slide cells over dead ones
\* and kept a cycle.
C1_Witness ==
  /\ variant = "lisp2" /\ status = "ok"
  /\ last.op = "gc" /\ last.slid
  /\ stackSize > 0
  /\ HasCycle(VM)

\* ------------------------------------------------------------------ C2
\* C2: lisp2-reallocate.c: from every reachable state, a collection that
\* ends without an undefined read leaves the graph the roots reach as it was.
C2_GcPreservesGraph ==
  (variant = "realloc" /\ status = "ok") =>
    \A g \in Collections :
      g.status = "ok" => (g.stackSize = stackSize /\ SameGraph(VM, g, RootPairs(VM, g)))

\* ------------------------------------------------------------------ C3
\* C3: both variants: after a collection, liveCount is the number of cells
\* the roots reached when it began.
C3_LiveCountIsReachable ==
  status = "ok" =>
    \A g \in Collections :
      g.status = "ok" => liveCount(g) = Cardinality(LiveCells(VM))

\* ------------------------------------------------------------------ C4
InRegion(v, p) == InBlock(v.heap, NCells(v), p) /\ p < v.next

\* C4: both variants: after a collection every root and every field of a
\* pair of [heap, next) points at a cell of [heap, next), and the cell a
\* reference the roots reach points at has the type it had before.
C4_ReferencesInRegion ==
  status = "ok" =>
    \A g \in Collections :
      g.status = "ok" =>
        /\ \A i \in 1 .. g.stackSize : InRegion(g, g.stack[i])
        /\ \A i \in 0 .. liveCount(g) - 1 :
             g.mem[i].type = OBJ_PAIR =>
               InRegion(g, g.mem[i].head) /\ InRegion(g, g.mem[i].tail)
        /\ \A r \in corr(VM, g, RootPairs(VM, g)) :
             CellAt(VM, r[1]).type = CellAt(g, r[2]).type

\* ------------------------------------------------------------------ C5
\* C5: both variants: outside a collection every cell of [heap, next) has
\* moveTo = NULL.
C5_MoveToIsNull ==
  status = "ok" => \A i \in 0 .. liveCount(VM) - 1 : mem[i].moveTo = NULL

\* ------------------------------------------------------------------ C6
\* A reference as an offset from the heap's base.
Offset(v, p) == p - v.heap

\* The heap and the roots with every reference as an offset.
Layout(v) ==
  [live |-> liveCount(v),
   cells |-> [i \in 0 .. liveCount(v) - 1 |->
                IF v.mem[i].type = OBJ_PAIR
                THEN [v.mem[i] EXCEPT !.head = Offset(v, v.mem[i].head),
                                      !.tail = Offset(v, v.mem[i].tail)]
                ELSE v.mem[i]],
   roots |-> [i \in 1 .. v.stackSize |-> Offset(v, v.stack[i])]]

\* C6: both variants: a collection that follows a collection, with nothing
\* between them, leaves liveCount, every cell of [heap, next) and every root
\* (as offsets from the base) as the first one left them.
C6_SecondGcIsNoOp ==
  (status = "ok" /\ last.op = "gc") =>
    \A g \in Collections : g.status = "ok" => Layout(g) = Layout(VM)

\* ------------------------------------------------------------------ C7
\* C7: lisp2.c: when the heap is full and the stack holds two values at
\* least, pushPair collects, and if it returns: the two values on top of the
\* stack are roots of that collection and their graphs are kept; the new pair
\* is on top of a stack one entry shorter, the entries below it are the
\* collection's; its tail is what was on top and its head what was second,
\* at the addresses the collection gave them.
C7_PushPairKeepsFields ==
  (variant = "lisp2" /\ status = "ok" /\ needsGc(VM) /\ stackSize >= 2) =>
    LET r == pushPair(VM, heap, FALSE)
        g == r.post
        n == stackSize
        pair == CellAt(r.vm, r.object)
    IN r.vm.status = "ok" =>
         /\ r.gcRan
         /\ g.stackSize = n
         /\ SameGraph(VM, g, {<<stack[n], g.stack[n]>>, <<stack[n - 1], g.stack[n - 1]>>})
         /\ r.vm.stackSize = n - 1
         /\ r.vm.stack = Append(SubSeq(g.stack, 1, n - 2), r.object)
         /\ pair.type = OBJ_PAIR
         /\ pair.tail = g.stack[n]
         /\ pair.head = g.stack[n - 1]
         /\ SameGraph(VM, r.vm, {<<stack[n], pair.tail>>, <<stack[n - 1], pair.head>>})

\* pushPair of lisp2.c has returned after a collection that had to slide the
\* values the pair now holds.
C7_Witness ==
  /\ variant = "lisp2" /\ status = "ok"
  /\ last.op = "pushPair" /\ last.gcRan /\ last.slid
  /\ stackSize >= 1
  /\ CellAt(VM, stack[stackSize]).type = OBJ_PAIR

\* ------------------------------------------------------------------ C8
\* C8: both variants: a pop of an empty stack ends the program with
\* StackUnderflow, and the stack size is never negative.
C8_PopOnEmptyFails ==
  /\ stackSize >= 0
  /\ (last.op \in {"pop", "pushPair"} /\ status \notin {"ok", "OutOfMemory"})
       => status = "StackUnderflow"

\* ------------------------------------------------------------------ C9
\* C9: lisp2-reallocate.c: heap <= next <= end in every state, and the
\* collection newObject runs when there is no room leaves room for a cell.
C9_AllocationHasRoom ==
  variant = "realloc" =>
    /\ heap <= next
    /\ next <= end
    /\ (status = "ok" /\ needsGc(VM)) =>
         \A h \in NewHeaps, l \in Lenients :
           LET g == gc(VM, ObjSize, h, l)
           IN g.status = "ok" => g.next + ObjSize <= g.end

\* newObject of lisp2-reallocate.c has collected, with a root to keep, and
\* allocated.
C9_Witness ==
  /\ variant = "realloc" /\ status = "ok"
  /\ last.op \in {"pushInt", "pushPair"} /\ last.gcRan
  /\ liveCount(VM) >= 2

\* ----------------------------------------------------------------- C10
\* C10: lisp2-reallocate.c: after gc(additionalSize), with liveBytes = next -
\* heap, end - heap is the larger of HEAP_MIN and liveBytes * 1.5 +
\* additionalSize; so it is HEAP_MIN at least, liveBytes + additionalSize at
\* least, and HEAP_MIN when the stack is empty and additionalSize is 0.
C10_Capacity ==
  (variant = "realloc" /\ status = "ok") =>
    \A a \in AdditionalSizes, h \in NewHeaps, l \in Lenients :
      LET g == gc(VM, a, h, l)
          liveBytes == g.next - g.heap
          capacity == g.end - g.heap
          wanted == HEADROOM_NUM * liveBytes + HEADROOM_DEN * a
      IN g.status = "ok" =>
           /\ HEADROOM_DEN * capacity =
                IF wanted < HEADROOM_DEN * HEAP_MIN THEN HEADROOM_DEN * HEAP_MIN ELSE wanted
           /\ capacity >= HEAP_MIN
           /\ capacity >= liveBytes + a
           /\ (stackSize = 0 /\ a = 0) => capacity = HEAP_MIN

\* ----------------------------------------------------------------- C11
\* C11: lisp2.c: newObject called when the heap is full runs a collection,
\* which ends without an error; it ends with OutOfMemory exactly when every
\* cell of the heap was reachable from the stack, and otherwise returns a
\* new cell of the heap.
C11_OutOfMemoryIffFull ==
  (variant = "lisp2" /\ status = "ok" /\ needsGc(VM)) =>
    \A type \in {OBJ_INT, OBJ_PAIR} :
      LET r == newObject(VM, type, heap, FALSE)
          full == Cardinality(LiveCells(VM)) = HeapCells
      IN /\ r.gcRan
         /\ r.post.status = "ok"
         /\ r.vm.status \in {"ok", "OutOfMemory"}
         /\ (r.vm.status = "OutOfMemory") <=> full
         /\ (r.vm.status = "OutOfMemory") <=> (r.post.next + ObjSize > r.post.heap + HEAP_SIZE)
         /\ r.vm.status = "ok" =>
              /\ r.object = r.post.next
              /\ r.object + ObjSize <= heap + HEAP_SIZE
              /\ r.vm.next = r.object + ObjSize

\* An allocation of lisp2.c has ended with OutOfMemory after its collection.
C11_Witness ==
  /\ variant = "lisp2" /\ status = "OutOfMemory"
  /\ last.op \in {"pushInt", "pushPair"} /\ last.gcRan

\* ----------------------------------------------------------------- C12
\* The end of the heap newObject compares with: heap + HEAP_SIZE in lisp2.c,
\* vm->end in lisp2-reallocate.c.
HeapEnd(v) == IF v.variant = "lisp2" THEN v.heap + HEAP_SIZE ELSE v.end

\* C12: both variants: newObject called with next + sizeof(Object) = end
\* runs no collection and returns the cell at next; called with next = end it
\* runs one collection and, if it returns, has allocated in the heap that
\* collection left.
C12_ExactFill ==
  status = "ok" =>
    \A type \in {OBJ_INT, OBJ_PAIR}, h \in NewHeaps, l \in Lenients :
      LET r == newObject(VM, type, h, l)
      IN /\ (next + ObjSize = HeapEnd(VM)) =>
              /\ ~r.gcRan
              /\ r.vm.status = "ok"
              /\ r.object = next
              /\ r.vm = allocate(VM, type)
              /\ r.vm.next = HeapEnd(r.vm)
         /\ (next = HeapEnd(VM)) =>
              /\ r.gcRan
              /\ r.pre = VM
              /\ r.post = gc(VM, ObjSize, h, l)
              /\ r.vm.status = "ok" =>
                   (r.object = r.post.next /\ r.vm = allocate(r.post, type))

\* An allocation of lisp2-reallocate.c has filled the heap to its end
\* without a collection: the next one finds next = end.
C12_Witness ==
  /\ variant = "realloc" /\ status = "ok"
  /\ last.op \in {"pushInt", "pushPair"} /\ ~last.gcRan
  /\ next = end

\* ----------------------------------------------------------------- C13
\* C13: lisp2-reallocate.c, only pushInt called on a new VM: a pushInt that
\* collects ends normally; its collection leaves a capacity end - heap that
\* is larger than before, the stack as long as it was, and every entry at
\* the offset it had, an integer with the value it had; the new integer is
\* pushed on top of them.
C13_GrowthKeepsIntegers ==
  (variant = "realloc" /\ status = "ok" /\ next < heap + NCells(VM) * ObjSize) =>
    \A n \in IntValues, h \in NewHeaps, l \in Lenients :
      LET r == pushInt(VM, n, h, l)
          g == r.post
          w == r.vm
      IN r.gcRan =>
           /\ g.status = "ok"
           /\ g.end - g.heap > end - heap
           /\ g.stackSize = stackSize
           /\ \A i \in 1 .. stackSize :
                /\ Offset(g, g.stack[i]) = Offset(VM, stack[i])
                /\ CellAt(g, g.stack[i]).type = OBJ_INT
                /\ CellAt(g, g.stack[i]).value = CellAt(VM, stack[i]).value
           /\ w.status = "ok"
           /\ w.stackSize = stackSize + 1
           /\ SubSeq(w.stack, 1, stackSize) = g.stack
           /\ CellAt(w, w.stack[stackSize + 1]).value = n
           /\ \A i \in 1 .. stackSize :
                CellAt(w, w.stack[i]).value = CellAt(VM, stack[i]).value

\* The fifth pushInt at least has collected, and realloc has moved the heap.
C13_Witness ==
  /\ variant = "realloc" /\ status = "ok"
  /\ last.op = "pushInt" /\ last.gcRan
  /\ stackSize >= 5
  /\ liveCount(VM) = stackSize
  /\ heap = BaseB

\* ----------------------------------------------------------------- C14
\* C14: both variants, rounds of pushInt and pop on a new VM: no round ends
\* with OutOfMemory or in an undefined read, and when a round has ended
\* (the stack is empty again) liveCount = (next - heap) / sizeof(Object) is 0.
C14_ChurnEndsEmpty ==
  /\ status = "ok"
  /\ (last.op = "pop" /\ stackSize = 0) => liveCount(VM) = 0

\* ----------------------------------------------------------------- C15
\* C15: lisp2-reallocate.c: in a collection, every cell a root or a field of
\* a marked pair points at lies wholly inside the block realloc is asked
\* for, offset + sizeof(Object) <= heapSize, and the collection reads and
\* writes no cell outside that block.
C15_CellsInsideNewBlock ==
  (variant = "realloc" /\ status = "ok") =>
    \A a \in AdditionalSizes, h \in NewHeaps :
      LET c == calculateNewLocations(markAll(VM, FALSE))
          heapSize == HeapSizeFor(c.to - heap, a)
      IN /\ \A p \in Reachable(VM) : Offset(VM, p) + ObjSize <= heapSize
         /\ gc(VM, a, h, FALSE).status = "ok"

\* ----------------------------------------------------------------- C16
\* The heap of v after markAll and calculateNewLocations: every marked cell
\* holds its forwarding address.
Planned(v, lenient) == calculateNewLocations(markAll(v, lenient))

\* The forwarding address the plan c gives the cell p points at.
Forward(c, p) ==
  IF InBlock(c.vm.heap, NCells(c.vm), p) THEN c.vm.mem[Idx(c.vm.heap, p)].moveTo ELSE Fault

\* C16: both variants: a collection that ends has handled every marked cell
\* between heap and the frontier it began with: the cell is at its forwarding
\* address with moveTo cleared, and, a pair, with head and tail translated
\* to the forwarding addresses of the cells they pointed at (read before
\* any was cleared); and next is heap + the live size.
C16_EveryMarkedCellHandled ==
  status = "ok" =>
    \A a \in AdditionalSizes, h \in NewHeaps, l \in Lenients :
      LET c == Planned(VM, l)
          g == gc(VM, a, h, l)
      IN g.status = "ok" =>
           /\ g.next = g.heap + (c.to - heap)
           /\ \A i \in 0 .. liveCount(VM) - 1 :
                c.vm.mem[i].moveTo # NULL =>
                  LET d == CellAt(g, g.heap + (c.vm.mem[i].moveTo - heap))
                  IN /\ d.type = mem[i].type
                     /\ d.moveTo = NULL
                     /\ d.type = OBJ_INT => d.value = mem[i].value
                     /\ d.type = OBJ_PAIR =>
                          /\ d.head - g.heap = Forward(c, mem[i].head) - heap
                          /\ d.tail - g.heap = Forward(c, mem[i].tail) - heap

\* ----------------------------------------------------------------- C17
\* The number of times mark(object) and the calls it makes execute
\* object->moveTo = object.
RECURSIVE markCount(_, _)
markCount(v, object) ==
  LET c == CellAt(v, object)
      v1 == [v EXCEPT !.mem[Idx(v.heap, object)].moveTo = object]
  IN IF c = Uninit \/ c.moveTo # NULL THEN 0
     ELSE IF c.type = OBJ_PAIR
          THEN 1 + markCount(v1, c.head) + markCount(mark(v1, c.head, FALSE), c.tail)
          ELSE 1

\* The same for markAll, from stack entry i on.
RECURSIVE markAllCount(_, _)
markAllCount(v, i) ==
  IF i > v.stackSize THEN 0
  ELSE markCount(v, v.stack[i]) + markAllCount(mark(v, v.stack[i], FALSE), i + 1)

\* The cells of [heap, next) whose moveTo is not NULL.
Marked(v) == {p \in {v.heap + i * ObjSize : i \in 0 .. liveCount(v) - 1} : CellAt(v, p).moveTo # NULL}

\* The pairs p and q are two pairs of one cycle.
OnOneCycle(v, p, q) ==
  /\ p # q
  /\ CellAt(v, p).type = OBJ_PAIR /\ CellAt(v, q).type = OBJ_PAIR
  /\ q \in closure(v, Children(v, p))
  /\ p \in closure(v, Children(v, q))

\* The heap of v is a graph as mark expects it: every cell of [heap, next)
\* has moveTo = NULL, and every reference reachable from the stack points at
\* a cell of [heap, next).
WellFormed(v) ==
  /\ \A i \in 0 .. liveCount(v) - 1 : v.mem[i].moveTo = NULL
  /\ \A p \in Reachable(v) : InRegion(v, p)

\* C17: mark and markAll of both files: on every well-formed graph the
\* program builds, cycles and pairs that point at themselves included,
\* markAll ends; when it has ended the cells with moveTo # NULL are the cells
\* reachable from the stack, each holds its own address, it was written
\* once, and nothing else has changed; a collection keeps as many cells as
\* are reachable. In lisp2.c every graph the program builds is well formed.
C17_MarkReachesExactly ==
  status = "ok" =>
    /\ variant = "lisp2" => WellFormed(VM)
    /\ WellFormed(VM) =>
         LET m == markAll(VM, FALSE)
         IN /\ m.status = "ok"
            /\ Marked(m) = LiveCells(VM)
            /\ \A p \in Marked(m) : CellAt(m, p).moveTo = p
            /\ markAllCount(VM, 1) = Cardinality(LiveCells(VM))
            /\ m = [VM EXCEPT !.mem = [i \in DOMAIN mem |->
                                         IF heap + i * ObjSize \in LiveCells(VM)
                                         THEN [mem[i] EXCEPT !.moveTo = heap + i * ObjSize]
                                         ELSE mem[i]]]
            /\ \A g \in Collections :
                 g.status = "ok" => liveCount(g) = Cardinality(LiveCells(VM))

\* The stack of lisp2.c holds one pair of a cycle of two pairs, and a pair
\* that points at itself is reachable.
C17_Witness ==
  /\ variant = "lisp2" /\ status = "ok"
  /\ stackSize = 1
  /\ \E p \in Reachable(VM), q \in Reachable(VM) : OnOneCycle(VM, p, q)
  /\ \E p \in Reachable(VM) : p \in Children(VM, p)

\* ----------------------------------------------------------------- C18
\* The indices of the cells of [heap, next) that markAll marks in v.
MarkedIdx(v, lenient) ==
  {i \in 0 .. liveCount(v) - 1 : markAll(v, lenient).mem[i].moveTo # NULL}

\* C18: calculateNewLocations of both files: after it, the marked cell that
\* has k marked cells below it holds heap + k * sizeof(Object), so the
\* addresses given are heap, heap + sizeof(Object), ... in the order of the
\* cells, the value returned is the first address not given, each address
\* is at most the cell's own, unmarked cells are left alone, and the address
\* given to a cell is below every marked cell above it: the move of a cell
\* overwrites no marked cell that is still to be moved.
C18_ForwardingInOrder ==
  status = "ok" =>
    \A l \in Lenients :
      LET m == markAll(VM, l)
          c == calculateNewLocations(m)
          I == MarkedIdx(VM, l)
      IN m.status = "ok" =>
           /\ \A i \in I :
                /\ c.vm.mem[i].moveTo =
                     heap + Cardinality({j \in I : j < i}) * ObjSize
                /\ c.vm.mem[i].moveTo <= heap + i * ObjSize
                /\ \A j \in I : j > i => c.vm.mem[i].moveTo < heap + j * ObjSize
                /\ \A j \in I : j > i => c.vm.mem[i].moveTo < c.vm.mem[j].moveTo
           /\ {c.vm.mem[i].moveTo : i \in I} =
                {heap + k * ObjSize : k \in 0 .. Cardinality(I) - 1}
           /\ c.to = heap + Cardinality(I) * ObjSize
           /\ \A i \in DOMAIN mem : i \notin I => c.vm.mem[i] = m.mem[i]

\* A collection of lisp2.c has ended that kept two cells at least and gave
\* one of them an address below its own.
C18_Witness ==
  /\ variant = "lisp2" /\ status = "ok"
  /\ last.op = "gc" /\ last.slid
  /\ liveCount(VM) >= 2

\* ----------------------------------------------------------------- C19
\* C19: both variants, a step that runs no collection: pop leaves heap, end,
\* next and every cell as they were; pushInt and pushPair that return have
\* advanced next by sizeof(Object), the new cell is the one at the old next,
\* with its type set and moveTo = NULL, it is the one pushed, and every
\* other cell is as it was; no such step, and no assignment of a field,
\* lowers next or moves the heap.
C19_FrontierOnlyAdvances ==
  [][(status = "ok" /\ last'.op # "gc" /\ ~last'.gcRan) =>
       /\ heap' = heap /\ end' = end
       /\ next' >= next
       /\ last'.op = "pop" => (next' = next /\ mem' = mem)
       /\ last'.op \in {"setHead", "setTail"} => next' = next
       /\ last'.op \in {"pushInt", "pushPair"} =>
            /\ \A i \in DOMAIN mem : i # Idx(heap, next) => mem'[i] = mem[i]
            /\ status' = "ok" =>
                 /\ next' = next + ObjSize
                 /\ mem'[Idx(heap, next)].type =
                      (IF last'.op = "pushInt" THEN OBJ_INT ELSE OBJ_PAIR)
                 /\ mem'[Idx(heap, next)].moveTo = NULL
                 /\ stack'[stackSize'] = next
     ]_vars

\* An allocation has run no collection and put its cell above two others.
C19_Witness ==
  /\ status = "ok"
  /\ last.op \in {"pushInt", "pushPair"} /\ ~last.gcRan
  /\ liveCount(VM) >= 3

====
